---- MODULE Spec2Model ----
(***************************************************************************)
(* A model of the NPI proxy of app/main.py: the GET /check-npi endpoint,  *)
(* its slowapi rate limiter ("10/minute", keyed by the peer address), the *)
(* httpx call to the NPPES registry and the mapping of the registry's     *)
(* JSON document to the endpoint's answer.                                 *)
(*                                                                         *)
(* The handler is an asyncio coroutine: everything between two awaits is  *)
(* one atomic step.  The only await of check_npi is the upstream call     *)
(* (main.py:98-99), so one action runs the limiter's check, the format    *)
(* validation and the start of the GET, and the actions that end the call *)
(* run the rest of the handler up to its response.                         *)
(***************************************************************************)
EXTENDS Integers, Sequences, FiniteSets, TLC

(***************************************************************************)
(* JSON values, as response.json() hands them to the handler.  A string   *)
(* is a sequence of characters, each character a one-element token.       *)
(***************************************************************************)
Absent == [t |-> "absent"]
Null == [t |-> "null"]
Str(s) == [t |-> "str", s |-> s]
List(q) == [t |-> "list", items |-> q]
Obj(f) == [t |-> "obj", fields |-> f]

IsDict(v) == v.t = "obj"

\* Python truthiness of a JSON value: None, "", [] and {} are falsy.
Truthy(v) ==
    CASE v.t = "null" -> FALSE
      [] v.t = "absent" -> FALSE
      [] v.t = "str" -> Len(v.s) > 0
      [] v.t = "list" -> Len(v.items) > 0
      [] v.t = "obj" -> DOMAIN v.fields # {}

\* dict.get(key, default) on a dict: the stored value, None included, when
\* the key is present; the default only when the key is missing.
DictGet(d, key, default) ==
    IF key \in DOMAIN d.fields THEN d.fields[key] ELSE default

\* str.upper() on the characters the model uses.
UpperChar(c) ==
    CASE c = "a" -> "A"
      [] c = "i" -> "I"
      [] OTHER -> c

Upper(s) == [i \in 1..Len(s) |-> UpperChar(s[i])]

(***************************************************************************)
(* Program constants.                                                      *)
(***************************************************************************)
NPI_LEN == 10
RATE_LIMIT == 10
RATE_WINDOW == 60
HTTP_TIMEOUT == 5
MAX_CONNECTIONS == 10

(***************************************************************************)
(* The format check of main.py:92, not number.isdigit() or len != 10.     *)
(* str.isdigit() is true of a non-empty string all of whose characters    *)
(* are digits in Unicode's sense: the ASCII digits, and also characters   *)
(* such as ARABIC-INDIC DIGIT THREE (U+0663) or SUPERSCRIPT TWO (U+00B2). *)
(***************************************************************************)
AsciiDigits == {"0", "1", "7", "9"}
UnicodeDigits == {"U+0663", "U+00B2"}
OtherChars == {"a", "-", " "}
Chars == AsciiDigits \cup UnicodeDigits \cup OtherChars

CharIsDigit(c) == c \in AsciiDigits \cup UnicodeDigits

isdigit(s) == Len(s) > 0 /\ \A i \in 1..Len(s) : CharIsDigit(s[i])

ValidFormat(number) == isdigit(number) /\ Len(number) = NPI_LEN

(***************************************************************************)
(* Responses of the endpoint.  One flat shape for all of them; a field a  *)
(* response does not carry is "none" (texts) or Absent (JSON values).     *)
(* exc names an exception that left check_npi uncaught: the server's      *)
(* error middleware then answers 500 "Internal Server Error".             *)
(***************************************************************************)
NoResp ==
    [status |-> 0, ok |-> "none", reason |-> "none", detail |-> "none",
     exc |-> "none", number |-> Absent, type |-> Absent,
     first_name |-> Absent, last_name |-> Absent]

HTTPException(code, text) ==
    [NoResp EXCEPT !.status = code, !.detail = text]

Unhandled(name) ==
    [NoResp EXCEPT !.status = 500, !.exc = name]

\* main.py:71-76
rate_limit_handler ==
    [NoResp EXCEPT !.status = 429, !.ok = "false",
                   !.reason = "too_many_requests",
                   !.detail = "Rate limit exceeded"]

Negative(why, number) ==
    [NoResp EXCEPT !.status = 200, !.ok = "false", !.reason = why,
                   !.number = Str(number)]

(***************************************************************************)
(* The response mapper, main.py:111-128, statement by statement.  A       *)
(* method call on a value that has no such method (None.get, ...) raises, *)
(* and nothing in check_npi catches it.                                    *)
(***************************************************************************)
\* A variant of Found that reads enumeration_type without its default.
FoundNoDefault(number, entry, basic) ==
    [NoResp EXCEPT !.status = 200, !.ok = "true", !.number = Str(number),
                   !.type = DictGet(entry, "enumeration_type", Null),
                   !.first_name = DictGet(basic, "first_name", Null),
                   !.last_name = DictGet(basic, "last_name", Null)]

Found(number, entry, basic) ==
    [NoResp EXCEPT !.status = 200, !.ok = "true", !.number = Str(number),
                   !.type = DictGet(entry, "enumeration_type", Str(<<>>)),
                   !.first_name = DictGet(basic, "first_name", Null),
                   !.last_name = DictGet(basic, "last_name", Null)]

StatusOf(basic) ==
    LET raw == DictGet(basic, "status", Null)
    IN  IF Truthy(raw) THEN raw ELSE Str(<<>>)

MapBasic(number, entry, basic) ==
    IF ~IsDict(basic) THEN Unhandled("AttributeError")
    ELSE IF StatusOf(basic).t # "str" THEN Unhandled("AttributeError")
    ELSE IF Upper(StatusOf(basic).s) # <<"A">> THEN Negative("inactive", number)
    ELSE Found(number, entry, basic)

MapEntry(number, entry) ==
    IF ~IsDict(entry) THEN Unhandled("AttributeError")
    ELSE MapBasic(number, entry, DictGet(entry, "basic", Obj(<<>>)))

Mapper(number, data) ==
    IF ~IsDict(data) THEN Unhandled("AttributeError")
    ELSE LET results == DictGet(data, "results", Null)
         IN  IF ~Truthy(results) THEN Negative("not_found", number)
             ELSE IF results.t = "list" THEN MapEntry(number, results.items[1])
             ELSE IF results.t = "str" THEN MapEntry(number, Str(<<results.s[1]>>))
             ELSE Unhandled("KeyError")

(***************************************************************************)
(* The rest of check_npi once the awaited GET has ended.                   *)
(* Each operator yields the response and the error records the handler    *)
(* logged on the way (logger.error, main.py:104 and 108).                  *)
(***************************************************************************)
LogRecord(number, cause) == [level |-> "ERROR", number |-> number, cause |-> cause]

\* except httpx.RequestError, main.py:103-105: connection failures and
\* every httpx timeout (ConnectTimeout, ReadTimeout, ...) are RequestErrors.
OnRequestError(number) ==
    [resp |-> HTTPException(500, "NPPES API request failed"),
     logged |-> <<LogRecord(number, "connection")>>]

\* except httpx.HTTPStatusError, main.py:107-109
OnStatusError(number) ==
    [resp |-> HTTPException(500, "NPPES API returned error"),
     logged |-> <<LogRecord(number, "status")>>]

\* response.json() on a body that is no JSON raises json.JSONDecodeError, a
\* ValueError: neither except clause of main.py:103-109 names it.
OnDecodeError(number) ==
    [resp |-> Unhandled("JSONDecodeError"), logged |-> <<>>]

IsSuccess(code) == code >= 200 /\ code <= 299

\* main.py:100-128, given the upstream's answer [code, parses, data].
AfterGet(number, answer) ==
    IF ~IsSuccess(answer.code) THEN OnStatusError(number)
    ELSE IF ~answer.parses THEN OnDecodeError(number)
    ELSE [resp |-> Mapper(number, answer.data), logged |-> <<>>]

(***************************************************************************)
(* The limiter: slowapi's Limiter with its defaults (main.py:68) is the   *)
(* fixed-window strategy over an in-memory store.  A key's counter lives  *)
(* for RATE_WINDOW seconds from the hit that created it; every hit,       *)
(* admitted or not, increments it; a hit is admitted while the counter    *)
(* does not exceed RATE_LIMIT (main.py:89, "10/minute").                   *)
(* expirations[k] is kept relative: the seconds the counter has left.     *)
(***************************************************************************)
WindowLive(left) == left > 0

HitCount(count, left) == IF WindowLive(left) THEN count + 1 ELSE 1

HitExpiry(left) == IF WindowLive(left) THEN left ELSE RATE_WINDOW

\* A variant of WithinLimit that is off by one.
WithinLimitOffByOne(count) == count <= RATE_LIMIT + 1

WithinLimit(count) == count <= RATE_LIMIT

(***************************************************************************)
(* State.                                                                  *)
(*  requests     the requests being handled, by connection slot           *)
(*  storage      the limiter's counter of each client key                 *)
(*  expirations  the seconds each counter has left (0: none)              *)
(*  recent       history: per key, the ages in seconds of its requests of *)
(*               the last RATE_WINDOW seconds (the newest RATE_LIMIT)     *)
(*  burst        history: per key, the age of, and the number of requests *)
(*               since, its last request that followed RATE_WINDOW        *)
(*               seconds without any request of the key                   *)
(***************************************************************************)
VARIABLES requests, storage, expirations, recent, burst

vars == <<requests, storage, expirations, recent, burst>>

Keys == {"10.0.0.1", "10.0.0.2"}

\* Bounds of the model.
MaxInFlight == 2
MaxHits == 12

\* A slot.  Beside the handler's own state it keeps, for the properties:
\*  validated  the handler body ran its format check
\*  gets       the upstream GETs issued for the request
\*  logged     the error records logged for it
\*  idle       seconds of the current wait on the upstream
\*  elapsed    seconds since the GET started (counted to HTTP_TIMEOUT + 1)
\*  answer     how the GET ended; data, the parsed document
\*  hit        the counter value the limiter returned for the request
\*  quiet      no request of the key in the RATE_WINDOW seconds before it
\*  crowded    RATE_LIMIT or more requests of the key in those seconds
\*  overrun    more than RATE_LIMIT requests of the key since its burst began
Free ==
    [pc |-> "free", key |-> "none", number |-> <<>>, validated |-> FALSE,
     gets |-> 0, logged |-> <<>>, idle |-> 0, elapsed |-> 0,
     answer |-> "none", data |-> Absent, hit |-> 0, quiet |-> FALSE,
     crowded |-> FALSE, overrun |-> FALSE,
     resp |-> NoResp]

NoBurst == [age |-> RATE_WINDOW, n |-> 0]

InFlight(r) == r.pc \in {"connect", "wait"}

\* The upstream connections the process holds open: every check_npi call
\* builds its own httpx.AsyncClient (main.py:98), so its own pool, and
\* holds one connection from the start of the GET to the end of the
\* async with block.
OpenConnections == Cardinality({s \in DOMAIN requests : InFlight(requests[s])})

Min(a, b) == IF a < b THEN a ELSE b
Max(a, b) == IF a > b THEN a ELSE b

KeepNewest(q) ==
    IF Len(q) > RATE_LIMIT THEN SubSeq(q, Len(q) - RATE_LIMIT + 1, Len(q)) ELSE q

BurstOnArrival(b, quiet) ==
    IF quiet THEN [age |-> 0, n |-> 1]
    ELSE IF b.age < RATE_WINDOW THEN [b EXCEPT !.n = Min(@ + 1, RATE_LIMIT + 1)]
    ELSE b

(***************************************************************************)
(* A request arrives: the wrapper of @limiter.limit (main.py:89) hits the *)
(* limiter and, over the limit, raises RateLimitExceeded before calling   *)
(* the handler; otherwise check_npi runs to its await (main.py:92-99).    *)
(***************************************************************************)
Admitted(count) == WithinLimit(count)

check_npi(r, number) ==
    IF ~ValidFormat(number)
    THEN [r EXCEPT !.pc = "done", !.validated = TRUE,
                   !.resp = HTTPException(400, "Invalid NPI number format")]
    ELSE [r EXCEPT !.pc = "connect", !.validated = TRUE, !.gets = @ + 1]

\* A variant of Limited that checks the limit once the handler has run.
LimitedAfterHandler(r, count, number) ==
    IF Admitted(count) THEN check_npi(r, number)
    ELSE [check_npi(r, number) EXCEPT !.pc = "done", !.resp = rate_limit_handler]

Limited(r, count, number) ==
    IF Admitted(count) THEN check_npi(r, number)
    ELSE [r EXCEPT !.pc = "done", !.resp = rate_limit_handler]

HandleRequest(s, key, number) ==
    /\ requests[s].pc = "free"
    /\ storage[key] < MaxHits \/ ~WindowLive(expirations[key])
    /\ LET count == HitCount(storage[key], expirations[key])
           b == BurstOnArrival(burst[key], recent[key] = <<>>)
           r == [Free EXCEPT !.key = key, !.number = number, !.hit = count,
                             !.quiet = (recent[key] = <<>>),
                             !.crowded = Len(recent[key]) >= RATE_LIMIT,
                             !.overrun = b.age < RATE_WINDOW /\ b.n > RATE_LIMIT]
       IN  /\ storage' = [storage EXCEPT ![key] = count]
           /\ expirations' = [expirations EXCEPT ![key] = HitExpiry(@)]
           /\ recent' = [recent EXCEPT ![key] = KeepNewest(Append(@, 0))]
           /\ burst' = [burst EXCEPT ![key] = b]
           /\ requests' = [requests EXCEPT ![s] = Limited(r, count, number)]

(***************************************************************************)
(* The upstream call, awaited at main.py:99.                               *)
(***************************************************************************)
\* httpx.Timeout(5.0), main.py:82: connect, read, write and pool timeouts
\* of 5 s each.  The connect timeout bounds the wait for the connection,
\* the read timeout each wait for data; neither bounds the call as a whole.
TimedOut(r) == r.idle >= HTTP_TIMEOUT

ConnectOk(s) ==
    /\ requests[s].pc = "connect"
    /\ ~TimedOut(requests[s])
    /\ requests' = [requests EXCEPT ![s] = [@ EXCEPT !.pc = "wait", !.idle = 0]]
    /\ UNCHANGED <<storage, expirations, recent, burst>>

Finish(r, how, out) ==
    [r EXCEPT !.pc = "done", !.answer = how, !.resp = out.resp,
              !.logged = @ \o out.logged]

\* A variant of TransportFailure that tries the GET again.
RetryOnFailure(s) ==
    /\ InFlight(requests[s])
    /\ requests' = [requests EXCEPT ![s] =
                      [@ EXCEPT !.pc = "connect", !.idle = 0, !.gets = @ + 1]]
    /\ UNCHANGED <<storage, expirations, recent, burst>>

\* DNS failure, refused or reset connection: an httpx.RequestError.
TransportFailure(s) ==
    /\ InFlight(requests[s])
    /\ requests' = [requests EXCEPT ![s] =
                      Finish(@, "transport", OnRequestError(@.number))]
    /\ UNCHANGED <<storage, expirations, recent, burst>>

\* A wait that lasted HTTP_TIMEOUT seconds raises ConnectTimeout or
\* ReadTimeout, both httpx.RequestErrors.
Timeout(s) ==
    /\ InFlight(requests[s])
    /\ TimedOut(requests[s])
    /\ requests' = [requests EXCEPT ![s] =
                      Finish(@, "timeout", OnRequestError(@.number))]
    /\ UNCHANGED <<storage, expirations, recent, burst>>

Respond(s, answer) ==
    /\ requests[s].pc = "wait"
    /\ ~TimedOut(requests[s])
    /\ requests' = [requests EXCEPT ![s] =
                      Finish([@ EXCEPT !.data = IF answer.parses THEN answer.data
                                                ELSE Absent],
                             IF ~IsSuccess(answer.code) THEN "status"
                             ELSE IF ~answer.parses THEN "malformed" ELSE "json",
                             AfterGet(@.number, answer))]
    /\ UNCHANGED <<storage, expirations, recent, burst>>

\* The response is sent and the slot serves the next request.
Close(s) ==
    /\ requests[s].pc = "done"
    /\ requests' = [requests EXCEPT ![s] = Free]
    /\ UNCHANGED <<storage, expirations, recent, burst>>

(***************************************************************************)
(* d seconds pass.  A wait that has reached its timeout is cut first.     *)
(***************************************************************************)
Older(q, d) == SelectSeq([i \in 1..Len(q) |-> q[i] + d], LAMBDA a : a < RATE_WINDOW)

AgeBurst(b, d) == IF b.age + d >= RATE_WINDOW THEN NoBurst ELSE [b EXCEPT !.age = @ + d]

AgeRequest(r, d) ==
    IF InFlight(r)
    THEN [r EXCEPT !.idle = @ + d, !.elapsed = Min(@ + d, HTTP_TIMEOUT + 1)]
    ELSE r

Tick(d) ==
    /\ \A s \in DOMAIN requests :
          InFlight(requests[s]) => requests[s].idle + d <= HTTP_TIMEOUT
    /\ requests' = [s \in DOMAIN requests |-> AgeRequest(requests[s], d)]
    /\ expirations' = [k \in Keys |-> Max(expirations[k] - d, 0)]
    /\ recent' = [k \in Keys |-> Older(recent[k], d)]
    /\ burst' = [k \in Keys |-> AgeBurst(burst[k], d)]
    /\ UNCHANGED storage

(***************************************************************************)
(* Inputs.                                                                 *)
(***************************************************************************)
\* Query strings: the empty one, and strings of NPI_LEN - 1, NPI_LEN and
\* NPI_LEN + 1 characters that are the digit "1" but for one position, and
\* strings of NPI_LEN equal characters.
Fill(L, p, c) == [i \in 1..L |-> IF i = p THEN c ELSE "1"]

NumberInputs ==
    {<<>>}
    \cup {Fill(L, p, c) : L \in {NPI_LEN - 1, NPI_LEN, NPI_LEN + 1},
                          p \in 1..(NPI_LEN + 1), c \in Chars}
    \cup {[i \in 1..NPI_LEN |-> c] : c \in Chars}

AsciiNumber == Fill(NPI_LEN, 1, "7")
LetterNumber == Fill(NPI_LEN, 1, "a")
UnicodeNumber == Fill(NPI_LEN, NPI_LEN, "U+0663")

OtherNumber == Fill(NPI_LEN, NPI_LEN, "9")

SomeNumbers == {AsciiNumber, LetterNumber}

\* ^[0-9]{10}$
MatchesPattern(number) ==
    Len(number) = NPI_LEN /\ \A i \in 1..Len(number) : number[i] \in AsciiDigits

\* Registry documents: a JSON object in which every field the mapper reads
\* may be missing, null or of its documented type, with fields the mapper
\* does not read beside them.
MkObj(f) == Obj([k \in {x \in DOMAIN f : f[x] # Absent} |-> f[k]])

StatusTexts == {<<"A">>, <<"a">>, <<"I">>, <<"i">>, <<>>}

BasicValues ==
    {Absent, Null}
    \cup {MkObj([status |-> st, first_name |-> fn, last_name |-> ln]) :
            st \in {Absent, Null} \cup {Str(x) : x \in StatusTexts},
            fn \in {Absent, Null, Str(<<"J", "O">>)},
            ln \in {Absent, Str(<<"D", "O", "E">>)}}

Entries ==
    {MkObj([basic |-> b, enumeration_type |-> e, taxonomies |-> List(<<>>)]) :
          b \in BasicValues, e \in {Absent, Null, Str(<<"N", "P", "I", "-", "1">>)}}

ActiveEntry ==
    MkObj([basic |-> MkObj([status |-> Str(<<"A">>), first_name |-> Str(<<"X">>)]),
           enumeration_type |-> Str(<<"N", "P", "I", "-", "2">>)])

InactiveEntry == MkObj([basic |-> MkObj([status |-> Str(<<"I">>)])])

ResultsValues ==
    {Absent, Null, List(<<>>)}
    \cup {List(<<e>>) : e \in Entries}
    \cup {List(<<e, more>>) : e \in Entries, more \in {ActiveEntry, InactiveEntry}}

Docs ==
    {MkObj([results |-> r, result_count |-> c]) :
        r \in ResultsValues, c \in {Absent, Str(<<"1">>)}}

SomeDocs ==
    {MkObj([results |-> List(<<>>)]),
     MkObj([results |-> List(<<InactiveEntry, ActiveEntry>>)]),
     MkObj([results |-> List(<<MkObj([basic |-> Null])>>)])}

\* What the upstream may answer: a status code, and for a 2xx a body that
\* parses as JSON or does not.
ErrorCodes == {404, 503}

Json(d) == [code |-> 200, parses |-> TRUE, data |-> d]

Failures ==
    {[code |-> c, parses |-> FALSE, data |-> Absent] : c \in ErrorCodes \cup {200}}

SomeAnswers == Failures \cup {Json(d) : d \in SomeDocs}

(***************************************************************************)
(* Specifications.                                                         *)
(***************************************************************************)
Idle(slots) ==
    /\ requests = [s \in slots |-> Free]
    /\ storage = [k \in Keys |-> 0]
    /\ expirations = [k \in Keys |-> 0]
    /\ recent = [k \in Keys |-> <<>>]
    /\ burst = [k \in Keys |-> NoBurst]

\* The process right after the first request, number, of client key has
\* started its GET.
Calling(key, number) ==
    /\ requests = [s \in {1} |->
                     check_npi([Free EXCEPT !.key = key, !.number = number,
                                            !.hit = 1, !.quiet = TRUE], number)]
    /\ storage = [k \in Keys |-> IF k = key THEN 1 ELSE 0]
    /\ expirations = [k \in Keys |-> IF k = key THEN RATE_WINDOW ELSE 0]
    /\ recent = [k \in Keys |-> IF k = key THEN <<0>> ELSE <<>>]
    /\ burst = [k \in Keys |-> IF k = key THEN [age |-> 0, n |-> 1] ELSE NoBurst]

\* Requests of one client handled concurrently, all within one instant.
Init == Idle(1..MaxInFlight)

Next ==
    \/ \E s \in DOMAIN requests, number \in SomeNumbers :
          HandleRequest(s, "10.0.0.1", number)
    \/ \E s \in DOMAIN requests : ConnectOk(s)
    \/ \E s \in DOMAIN requests : TransportFailure(s)
    \/ \E s \in DOMAIN requests, answer \in SomeAnswers : Respond(s, answer)
    \/ \E s \in DOMAIN requests : Close(s)

Spec == Init /\ [][Next]_vars

\* The format check on every input: one request at a time, the upstream
\* answering at once.
NextValidate ==
    \/ \E number \in NumberInputs : HandleRequest(1, "10.0.0.1", number)
    \/ ConnectOk(1)
    \/ Respond(1, Json(MkObj([results |-> List(<<ActiveEntry>>)])))
    \/ Close(1)

SpecValidate == Idle({1}) /\ [][NextValidate]_vars

\* The mapper on every document: a call that awaits the registry's answer.
InitMapper ==
    \E number \in {AsciiNumber, OtherNumber} :
        /\ Calling("10.0.0.1", number)
        /\ requests[1].pc = "connect"

NextMapper ==
    \/ ConnectOk(1)
    \/ \E d \in Docs : Respond(1, Json(d))

SpecMapper == InitMapper /\ [][NextMapper]_vars

\* One call against the clock, second by second.
NextTimeout ==
    \/ Tick(1)
    \/ ConnectOk(1)
    \/ TransportFailure(1)
    \/ Timeout(1)
    \/ \E answer \in SomeAnswers : Respond(1, answer)

SpecTimeout == Calling("10.0.0.1", AsciiNumber) /\ [][NextTimeout]_vars

\* The limiter over time: requests of the clients served one at a time,
\* the clock read every TickLen seconds.
TickLen == 30

NextLimit ==
    \/ \E key \in Keys, number \in {AsciiNumber, LetterNumber} :
          HandleRequest(1, key, number)
    \/ ConnectOk(1)
    \/ Respond(1, Json(MkObj([results |-> List(<<>>)])))
    \/ Close(1)
    \/ Tick(TickLen)

SpecLimit == Idle({1}) /\ [][NextLimit]_vars

\* The connections of the process: each request arrives once the earlier
\* ones hold their connection, and the registry is slow to answer.
Parked(s) == \A o \in DOMAIN requests \ {s} : requests[o].pc \in {"free", "wait", "done"}

NextPool ==
    \/ \E s \in DOMAIN requests, key \in Keys :
          /\ Parked(s)
          /\ \A o \in DOMAIN requests : o < s => requests[o].pc # "free"
          /\ HandleRequest(s, key, AsciiNumber)
    \/ \E s \in DOMAIN requests : ConnectOk(s)

SpecPool == Idle(1..(MAX_CONNECTIONS + 1)) /\ [][NextPool]_vars

(***************************************************************************)
(* Properties.                                                             *)
(***************************************************************************)
Handled == {s \in DOMAIN requests : requests[s].pc # "free"}

Answered == {s \in DOMAIN requests : requests[s].pc = "done"}

\* The handler body ran for the request: the limiter admitted it.
Reached(r) == r.hit <= RATE_LIMIT

\* Reading a document the safe way: a field of anything but an object that
\* has it is missing.
Field(v, k) == IF v.t = "obj" /\ k \in DOMAIN v.fields THEN v.fields[k] ELSE Absent

First(v) == IF v.t = "list" /\ Len(v.items) > 0 THEN v.items[1] ELSE Absent

RefStatus(data) == Field(Field(First(Field(data, "results")), "basic"), "status")

\* The classification of section 4.3 of the specification.
RefClass(data) ==
    IF First(Field(data, "results")) = Absent THEN "not_found"
    ELSE IF RefStatus(data) \in {Str(<<"A">>), Str(<<"a">>)} THEN "found"
    ELSE "inactive"

Outcome(resp) ==
    IF resp.status # 200 THEN "error"
    ELSE IF resp.ok = "true" THEN "found"
    ELSE resp.reason

OrElse(v, default) == IF v = Absent THEN default ELSE v

\* C1: a request the limiter admits whose number does not match ^[0-9]{10}$
\* is answered 400, and no upstream GET is issued for it.
C1_InvalidRejected ==
    \A s \in Handled :
        LET r == requests[s]
        IN  Reached(r) /\ ~MatchesPattern(r.number)
                => r.pc = "done" /\ r.resp.status = 400 /\ r.gets = 0

\* C2: a request with a valid 10-digit number that reaches check_npi has
\* exactly one upstream GET issued for it, from its receipt to its response
\* and whatever the outcome of the call.
C2_ExactlyOneGet ==
    \A s \in Handled :
        LET r == requests[s]
        IN  Reached(r) /\ MatchesPattern(r.number) => r.gets = 1

\* C2 witness: two valid requests answered after a failed call, one by a
\* transport failure and one by a non-2xx status, each with its one GET.
C2_Witness ==
    \E s, o \in Answered :
        /\ MatchesPattern(requests[s].number) /\ MatchesPattern(requests[o].number)
        /\ requests[s].answer = "transport" /\ requests[s].gets = 1
        /\ requests[o].answer = "status" /\ requests[o].gets = 1

\* C3 as stated (a rolling minute): a request that is at least the 11th of
\* its key within 60 seconds, whatever came before, is answered 429 with
\* reason too_many_requests.
C3_RollingMinute ==
    \A s \in Handled :
        requests[s].crowded => requests[s].resp = rate_limit_handler

\* C3 as amended (a fixed window): when a key's request follows 60 seconds
\* without any request of that key, it is admitted, and every request of the
\* key beyond the 10th within the 60 seconds from it is answered 429 with
\* reason too_many_requests.
C3_FixedWindow ==
    \A s \in Handled :
        LET r == requests[s]
        IN  /\ r.overrun => r.pc = "done" /\ r.resp = rate_limit_handler
            /\ r.quiet => r.resp.status # 429

\* C3 witness: the second client's 11th request of a burst is answered 429
\* while the first client, quiet for a minute, is being counted afresh.
C3_Witness ==
    \E s \in Answered :
        /\ requests[s].overrun /\ requests[s].hit = RATE_LIMIT + 1
        /\ requests[s].resp.status = 429
        /\ requests[s].key = "10.0.0.2"
        /\ storage["10.0.0.1"] > RATE_LIMIT /\ expirations["10.0.0.1"] = 0

\* C4: a request the limiter rejects is answered by the 429 body alone:
\* neither the format check nor the upstream GET runs for it, valid number
\* or not.
C4_ShortCircuit ==
    \A s \in Handled :
        LET r == requests[s]
        IN  ~Reached(r)
                => /\ r.pc = "done" /\ r.resp = rate_limit_handler
                   /\ ~r.validated /\ r.gets = 0 /\ r.logged = <<>>

\* C4 witness: two rejected requests, one with a valid number and one with
\* an invalid one.
C4_Witness ==
    \E s, o \in Answered :
        /\ ~Reached(requests[s]) /\ MatchesPattern(requests[s].number)
        /\ ~Reached(requests[o]) /\ ~isdigit(requests[o].number)
        /\ requests[s].resp.status = 429 /\ requests[o].resp.status = 429

\* C5: for every parsed document the mapper's outcome is the reference
\* classification: not_found, inactive or found, each a 200 body.
C5_Classification ==
    \A s \in Answered :
        requests[s].answer = "json"
            => Outcome(requests[s].resp) = RefClass(requests[s].data)

\* C6: for every document classified as found the 200 body carries the
\* request's number, type as results[0].enumeration_type or "" when that is
\* missing, and first_name / last_name as in results[0].basic or null.
C6_FoundFields ==
    \A s \in Answered :
        LET r == requests[s]
            entry == First(Field(r.data, "results"))
            basic == Field(entry, "basic")
        IN  r.answer = "json" /\ RefClass(r.data) = "found"
                => /\ r.resp.status = 200 /\ r.resp.ok = "true"
                   /\ r.resp.exc = "none"
                   /\ r.resp.number = Str(r.number)
                   /\ r.resp.type = OrElse(Field(entry, "enumeration_type"), Str(<<>>))
                   /\ r.resp.first_name = OrElse(Field(basic, "first_name"), Null)
                   /\ r.resp.last_name = OrElse(Field(basic, "last_name"), Null)

\* C6 witness: a found answer for a record, first of two, that has neither
\* enumeration_type nor first_name.
C6_Witness ==
    \E s \in Answered :
        LET r == requests[s]
            entry == First(Field(r.data, "results"))
        IN  /\ r.answer = "json" /\ RefClass(r.data) = "found"
            /\ Len(Field(r.data, "results").items) = 2
            /\ Field(entry, "enumeration_type") = Absent
            /\ Field(Field(entry, "basic"), "first_name") = Absent
            /\ r.resp.ok = "true" /\ r.resp.type = Str(<<>>)
            /\ r.resp.first_name = Null

\* C7: every failed upstream call (transport failure or timeout, non-2xx
\* status, malformed body) is caught in check_npi, logged once with the
\* number, and answered by the generic 500 with a fixed detail.
C7_FailuresLogged ==
    \A s \in Answered :
        LET r == requests[s]
        IN  r.answer \in {"transport", "timeout", "status", "malformed"}
                => /\ r.resp.status = 500 /\ r.resp.exc = "none"
                   /\ r.resp.detail \in {"NPPES API request failed",
                                         "NPPES API returned error"}
                   /\ Len(r.logged) = 1 /\ r.logged[1].number = r.number

\* C8: a call the upstream has not answered within the timeout ceiling is
\* aborted and answered 500 as a transport failure is.
C8_HardCeiling ==
    \A s \in Handled :
        LET r == requests[s]
        IN  r.elapsed > HTTP_TIMEOUT
                => r.pc = "done" /\ r.resp = OnRequestError(r.number).resp

\* C9: the process never holds more than 10 upstream connections open.
C9_PoolBound == OpenConnections <= MAX_CONNECTIONS

\* C10: on every parsed document, whatever fields are extra, missing or
\* null, the mapper yields not_found, inactive or found and never raises.
C10_NeverRaises ==
    \A s \in Answered :
        requests[s].answer = "json"
            => /\ requests[s].resp.exc = "none"
               /\ Outcome(requests[s].resp) \in {"not_found", "inactive", "found"}
====
